---- MODULE Spec2Model ----
(***************************************************************************)
(* Model of rcon/gui.py: the GTK front end of the RCON client.             *)
(*                                                                         *)
(* Text is modelled as a sequence of one-character strings, so that        *)
(* int(port) and str(port) are computed character by character.            *)
(* Messages shown to the user and exception class names are TLA+ strings.  *)
(***************************************************************************)
EXTENDS Integers, Sequences, FiniteSets, TLC

(***************************************************************************)
(* Bounds of the model.                                                    *)
(***************************************************************************)
\* longest port text enumerated exhaustively over PortAlphabet
MaxPortLen == 2

\* upper end of the accepted port range (gui.py line 158)
MaxPort == 65535

(***************************************************************************)
(* Text helpers: Python's int(str) and str(int).                           *)
(***************************************************************************)
Digits == {"0", "1", "2", "3", "4", "5", "6", "7", "8", "9"}

DigitVal(c) ==
    CASE c = "0" -> 0 [] c = "1" -> 1 [] c = "2" -> 2 [] c = "3" -> 3
      [] c = "4" -> 4 [] c = "5" -> 5 [] c = "6" -> 6 [] c = "7" -> 7
      [] c = "8" -> 8 [] c = "9" -> 9

DigitChar(d) ==
    CASE d = 0 -> "0" [] d = 1 -> "1" [] d = 2 -> "2" [] d = 3 -> "3"
      [] d = 4 -> "4" [] d = 5 -> "5" [] d = 6 -> "6" [] d = 7 -> "7"
      [] d = 8 -> "8" [] d = 9 -> "9"

IsSpace(c) == c = " "

RECURSIVE LStrip(_)
LStrip(s) == IF s # <<>> /\ IsSpace(Head(s)) THEN LStrip(Tail(s)) ELSE s

RECURSIVE RStrip(_)
RStrip(s) ==
    IF s # <<>> /\ IsSpace(s[Len(s)]) THEN RStrip(SubSeq(s, 1, Len(s) - 1)) ELSE s

Strip(s) == RStrip(LStrip(s))

\* digit ("_"? digit)*  -- the digit part of a decimal integer literal
ValidDigits(s) ==
    /\ Len(s) >= 1
    /\ s[1] \in Digits
    /\ s[Len(s)] \in Digits
    /\ \A i \in 1..Len(s) : s[i] \in Digits \cup {"_"}
    /\ \A i \in 1..(Len(s) - 1) : ~(s[i] = "_" /\ s[i + 1] = "_")

RECURSIVE DigitsValue(_, _)
DigitsValue(s, acc) ==
    IF s = <<>> THEN acc
    ELSE IF Head(s) = "_" THEN DigitsValue(Tail(s), acc)
    ELSE DigitsValue(Tail(s), acc * 10 + DigitVal(Head(s)))

\* int(s): surrounding whitespace is stripped, one optional sign, then
\* decimal digits with single underscores allowed between digits.
PyInt(s) ==
    LET t == Strip(s)
        signed == t # <<>> /\ Head(t) \in {"+", "-"}
        body == IF signed THEN Tail(t) ELSE t
        mag == DigitsValue(body, 0)
    IN  IF ValidDigits(body)
        THEN [ok |-> TRUE, val |-> IF signed /\ Head(t) = "-" THEN 0 - mag ELSE mag]
        ELSE [ok |-> FALSE, val |-> 0]

RECURSIVE NatStr(_)
NatStr(n) ==
    IF n < 10 THEN <<DigitChar(n)>>
    ELSE NatStr(n \div 10) \o <<DigitChar(n % 10)>>

\* str(n) for an int
PyStr(n) == IF n < 0 THEN <<"-">> \o NatStr(0 - n) ELSE NatStr(n)

(***************************************************************************)
(* RCONParams and get_rcon_params.                                         *)
(***************************************************************************)
RCONParams(h, p, pw, c) == [host |-> h, port |-> p, passwd |-> pw, command |-> c]

NoParams == RCONParams(<<>>, 0, <<>>, <<>>)

Raised(message) == [ok |-> FALSE, msg |-> message, params |-> NoParams]

Returned(p) == [ok |-> TRUE, msg |-> "", params |-> p]

\* variant: the port is parsed and range-checked before the command is
\* looked at
get_rcon_params_port_first(h, p, pw, c) ==
    IF h = <<>> THEN Raised("No host specified.")
    ELSE IF p = <<>> THEN Raised("No port specified.")
    ELSE IF ~PyInt(p).ok THEN Raised("Invalid port specified.")
    ELSE IF ~(0 <= PyInt(p).val /\ PyInt(p).val <= MaxPort)
         THEN Raised("Invalid port specified.")
    ELSE IF c = <<>> THEN Raised("No command entered.")
    ELSE Returned(RCONParams(h, PyInt(p).val, pw, c))

\* variant: password and command change places in the returned tuple
get_rcon_params_swapped(h, p, pw, c) ==
    IF h = <<>> THEN Raised("No host specified.")
    ELSE IF p = <<>> THEN Raised("No port specified.")
    ELSE IF c = <<>> THEN Raised("No command entered.")
    ELSE IF ~PyInt(p).ok THEN Raised("Invalid port specified.")
    ELSE IF ~(0 <= PyInt(p).val /\ PyInt(p).val <= MaxPort)
         THEN Raised("Invalid port specified.")
    ELSE Returned(RCONParams(h, PyInt(p).val, c, pw))

\* GUI.get_rcon_params on the texts of the four entries
get_rcon_params(h, p, pw, c) ==
    IF h = <<>> THEN Raised("No host specified.")
    ELSE IF p = <<>> THEN Raised("No port specified.")
    ELSE IF c = <<>> THEN Raised("No command entered.")
    ELSE IF ~PyInt(p).ok THEN Raised("Invalid port specified.")
    ELSE IF ~(0 <= PyInt(p).val /\ PyInt(p).val <= MaxPort)
         THEN Raised("Invalid port specified.")
    ELSE Returned(RCONParams(h, PyInt(p).val, pw, c))

(***************************************************************************)
(* Input domains.                                                          *)
(***************************************************************************)
Hosts == {<<>>, <<"h">>}

Passwds == {<<>>, <<"s">>}

Commands == {<<>>, <<"l", "s">>}

Responses == {<<"o", "k">>, <<"p", "3">>}

ResultEdits == {<<>>, <<"x">>}

PortAlphabet == {"0", "7", "-", "+", " ", "a", "_"}

PortSamples ==
    { <<"6", "5", "5", "3", "5">>, <<"6", "5", "5", "3", "6">>,
      <<"2", "7", "0", "1", "5">>, <<"a", "b", "c">>,
      <<"0", "8", "0">>, <<" ", "8", "0", " ">>, <<"+", "8", "0">>,
      <<"8", "_", "0">>, <<"8", "_", "_", "0">>, <<"-", " ", "1">>,
      <<"1", "0", "0", "0", "0", "0">>, <<"0", "0", "6", "5", "5", "3", "6">> }

PortInputs ==
    PortSamples \cup UNION { [1..n -> PortAlphabet] : n \in 0..MaxPortLen }

\* port texts typed while a session is being exercised
RunPorts == {<<>>, <<"8", "0">>, <<"a">>, <<"7", "0", "0", "0", "0">>}

(***************************************************************************)
(* State.                                                                  *)
(***************************************************************************)
VARIABLES
    host, port, passwd, command, result, savepw,   \* the widgets of GUI
    app,          \* "off", "running", "crashed", "hung", "quit"
    cacheKind,    \* CACHE_FILE: "nodir", "missing", "noperm", "ok"
    cacheData,    \* content of CACHE_FILE
    log,          \* level of the record LOGGER got from the last load or save
    pc,           \* position of on_button_clicked
    params,       \* RCONParams held by run_rcon
    pending,      \* value or exception travelling up the call stack
    connOpen,     \* the client's connection is open
    rejected, fault, origin, shown, fatal, outcome, resultSet,
    nConnect, nLogin, nRun, nClose, connected, authed,
                  \* what happened in the attempt started by the last click
    prev, written, roundTrip
                  \* widget values at the last save that wrote the file

widgets == <<host, port, passwd, command, result, savepw>>

store == <<app, cacheKind, cacheData, log>>

session == <<pc, params, pending, connOpen>>

observed == <<rejected, fault, origin, shown, fatal, outcome, resultSet,
              nConnect, nLogin, nRun, nClose, connected, authed>>

ghost == <<prev, written, roundTrip>>

vars == <<widgets, store, session, observed, ghost>>

(***************************************************************************)
(* Exceptions and on_button_clicked's except clauses.                      *)
(***************************************************************************)
Exc(c, m) == [cls |-> c, msg |-> m]

NoExc == Exc("", "")

NoPending == [kind |-> "none", exc |-> NoExc, text |-> <<>>]

Raise(e) == [kind |-> "raise", exc |-> e, text |-> <<>>]

Return(t) == [kind |-> "return", exc |-> NoExc, text |-> t]

\* the classes on_button_clicked has an except clause for
CaughtClasses ==
    {"ValueError", "ConnectionRefusedError", "timeout", "RequestIdMismatch",
     "WrongPassword"}

\* variant: the messages of the first and the last client clause change
\* places
ErrorMessage_swapped(e) ==
    CASE e.cls = "ValueError" -> e.msg
      [] e.cls = "ConnectionRefusedError" -> "Invalid password."
      [] e.cls = "timeout" -> "Connection timed out."
      [] e.cls = "RequestIdMismatch" -> "Request ID mismatch."
      [] e.cls = "WrongPassword" -> "Connection refused."

\* variant: the timeout clause repeats the message of the clause above it
ErrorMessage_copied(e) ==
    CASE e.cls = "ValueError" -> e.msg
      [] e.cls = "ConnectionRefusedError" -> "Connection refused."
      [] e.cls = "timeout" -> "Connection refused."
      [] e.cls = "RequestIdMismatch" -> "Request ID mismatch."
      [] e.cls = "WrongPassword" -> "Invalid password."

\* the text on_button_clicked passes to show_error for a caught exception
ErrorMessage(e) ==
    CASE e.cls = "ValueError" -> e.msg
      [] e.cls = "ConnectionRefusedError" -> "Connection refused."
      [] e.cls = "timeout" -> "Connection timed out."
      [] e.cls = "RequestIdMismatch" -> "Request ID mismatch."
      [] e.cls = "WrongPassword" -> "Invalid password."

\* variant: the client is entered before the parameters are looked at
run_rcon_connect_first(v) ==
    [pc |-> "enter_connect", params |-> v.params, pending |-> NoPending]

\* GUI.run_rcon up to the with statement: get_rcon_params first, and its
\* ValueError leaves run_rcon before Client is constructed
run_rcon(v) ==
    IF v.ok THEN [pc |-> "enter_connect", params |-> v.params, pending |-> NoPending]
    ELSE [pc |-> "handler", params |-> NoParams,
          pending |-> Raise(Exc("ValueError", v.msg))]

\* with Client(...) as client: an exception raised while entering skips
\* the body and __exit__; after the body, returned or raised, __exit__ runs
WithAfterEnterRaise == "handler"

WithAfterBody == "with_exit"

(***************************************************************************)
(* The remote client (rcon.proto.Client), as the with statement of         *)
(* run_rcon uses it: constructed with host, port and passwd; entering      *)
(* connects and logs in; the body runs the command; __exit__ closes.       *)
(***************************************************************************)
ConnectFaults ==
    { Exc("ConnectionRefusedError", ""), Exc("timeout", ""),
      Exc("ValueError", "label empty or too long"), Exc("OSError", "") }

LoginFaults ==
    { Exc("WrongPassword", ""), Exc("timeout", ""),
      Exc("RequestIdMismatch", ""), Exc("OSError", "") }

RunFaults ==
    { Exc("timeout", ""), Exc("RequestIdMismatch", ""), Exc("OSError", "") }

Idle == app = "running" /\ pc = "idle"

(***************************************************************************)
(* The user edits the widgets (only while no handler is running: the       *)
(* handler blocks the GTK main loop).                                      *)
(***************************************************************************)
Edit == Idle /\ roundTrip' = FALSE
        /\ UNCHANGED <<store, session, observed, prev, written>>

SetHost ==
    /\ Edit
    /\ \E h \in Hosts : host' = h
    /\ UNCHANGED <<port, passwd, command, result, savepw>>

SetPort ==
    /\ Edit
    /\ \E p \in RunPorts : port' = p
    /\ UNCHANGED <<host, passwd, command, result, savepw>>

SetPasswd ==
    /\ Edit
    /\ \E pw \in Passwds : passwd' = pw
    /\ UNCHANGED <<host, port, command, result, savepw>>

SetCommand ==
    /\ Edit
    /\ \E c \in Commands : command' = c
    /\ UNCHANGED <<host, port, passwd, result, savepw>>

SetResult ==
    /\ Edit
    /\ \E r \in ResultEdits : result' = r
    /\ UNCHANGED <<host, port, passwd, command, savepw>>

ToggleSavepw ==
    /\ Edit
    /\ savepw' = ~savepw
    /\ UNCHANGED <<host, port, passwd, command, result>>

(***************************************************************************)
(* on_button_clicked, step by step.                                        *)
(***************************************************************************)
\* the Run button: on_button_clicked calls run_rcon, which validates
ClickRun ==
    /\ Idle
    /\ LET v == get_rcon_params(host, port, passwd, command)
           r == run_rcon(v)
       IN  /\ pc' = r.pc
           /\ params' = r.params
           /\ pending' = r.pending
           /\ rejected' = ~v.ok
           /\ fault' = IF v.ok THEN NoExc ELSE Exc("ValueError", v.msg)
           /\ origin' = IF v.ok THEN "none" ELSE "validate"
    /\ connOpen' = FALSE
    /\ shown' = <<>>
    /\ fatal' = ""
    /\ outcome' = "running"
    /\ resultSet' = FALSE
    /\ nConnect' = 0 /\ nLogin' = 0 /\ nRun' = 0 /\ nClose' = 0
    /\ connected' = FALSE /\ authed' = FALSE
    /\ roundTrip' = FALSE
    /\ UNCHANGED <<widgets, store, prev, written>>

\* Client.__enter__: connect to (params.host, params.port)
ClientConnect ==
    /\ pc = "enter_connect"
    /\ nConnect' = nConnect + 1
    /\ \/ /\ connOpen' = TRUE
          /\ connected' = TRUE
          /\ pc' = "enter_login"
          /\ UNCHANGED <<pending, fault, origin>>
       \/ \E e \in ConnectFaults :
             /\ pending' = Raise(e)
             /\ fault' = e
             /\ origin' = "connect"
             /\ pc' = WithAfterEnterRaise
             /\ UNCHANGED <<connOpen, connected>>
    /\ UNCHANGED <<widgets, store, params, ghost, rejected, shown, fatal,
                   outcome, resultSet, nLogin, nRun, nClose, authed>>

\* Client.__enter__: log in with params.passwd
ClientLogin ==
    /\ pc = "enter_login"
    /\ nLogin' = nLogin + 1
    /\ \/ /\ authed' = TRUE
          /\ pc' = "body"
          /\ UNCHANGED <<pending, fault, origin>>
       \/ \E e \in LoginFaults :
             /\ pending' = Raise(e)
             /\ fault' = e
             /\ origin' = "login"
             /\ pc' = WithAfterEnterRaise
             /\ UNCHANGED authed
    /\ UNCHANGED <<widgets, store, params, connOpen, ghost, rejected, shown,
                   fatal, outcome, resultSet, nConnect, nRun, nClose, connected>>

\* the with body: return client.run(params.command)
ClientRun ==
    /\ pc = "body"
    /\ nRun' = nRun + 1
    /\ \/ \E t \in Responses :
             /\ pending' = Return(t)
             /\ UNCHANGED <<fault, origin>>
       \/ \E e \in RunFaults :
             /\ pending' = Raise(e)
             /\ fault' = e
             /\ origin' = "run"
    /\ pc' = WithAfterBody
    /\ UNCHANGED <<widgets, store, params, connOpen, ghost, rejected, shown,
                   fatal, outcome, resultSet, nConnect, nLogin, nClose,
                   connected, authed>>

\* leaving the with statement: Client.__exit__ closes the connection and
\* lets the value or the exception through
WithExit ==
    /\ pc = "with_exit"
    /\ nClose' = nClose + 1
    /\ connOpen' = FALSE
    /\ pc' = "handler"
    /\ UNCHANGED <<widgets, store, params, pending, ghost, rejected, fault,
                   origin, shown, fatal, outcome, resultSet, nConnect, nLogin,
                   nRun, connected, authed>>

\* the except and else clauses of on_button_clicked
HandlerFinish ==
    /\ pc = "handler"
    /\ pc' = "idle"
    /\ pending' = NoPending
    /\ IF pending.kind = "return"
       THEN /\ result' = pending.text
            /\ resultSet' = TRUE
            /\ outcome' = "success"
            /\ UNCHANGED <<shown, fatal>>
       ELSE IF pending.exc.cls \in CaughtClasses
       THEN /\ shown' = Append(shown, ErrorMessage(pending.exc))
            /\ outcome' = "failure"
            /\ UNCHANGED <<result, resultSet, fatal>>
       ELSE /\ fatal' = pending.exc.cls
            /\ outcome' = "fatal"
            /\ UNCHANGED <<result, resultSet, shown>>
    /\ UNCHANGED <<host, port, passwd, command, savepw, store, params,
                   connOpen, ghost, rejected, fault, origin, nConnect, nLogin,
                   nRun, nClose, connected, authed>>

(***************************************************************************)
(* The settings cache: CACHE_FILE holds text; what json.load makes of it   *)
(* is garbage (no JSON), a JSON value that is no object, or an object.     *)
(***************************************************************************)
Keys == {"host", "port", "command", "result", "savepw", "passwd"}

JAbsent == [type |-> "absent", s |-> <<>>, b |-> FALSE]

JStr(t) == [type |-> "string", s |-> t, b |-> FALSE]

JBool(v) == [type |-> "bool", s |-> <<>>, b |-> v]

JNum == [type |-> "number", s |-> <<>>, b |-> FALSE]

EmptyObj == [k \in Keys |-> JAbsent]

NoData == [kind |-> "none", obj |-> EmptyObj]

Garbage == [kind |-> "garbage", obj |-> EmptyObj]

NonObject == [kind |-> "array", obj |-> EmptyObj]

Object(o) == [kind |-> "object", obj |-> o]

\* files found on disk that this program did not write
ForeignData ==
    { Garbage, NonObject, Object(EmptyObj),
      Object([EmptyObj EXCEPT !["host"] = JStr(<<"h">>), !["port"] = JNum]),
      Object([EmptyObj EXCEPT !["passwd"] = JStr(<<"s">>),
                              !["savepw"] = JBool(FALSE)]),
      Object([EmptyObj EXCEPT !["host"] = JStr(<<"h">>),
                              !["savepw"] = JBool(TRUE)]) }

Widgets(h, p, pw, c, r, sp) ==
    [host |-> h, port |-> p, passwd |-> pw, command |-> c, result |-> r,
     savepw |-> sp]

Defaults == Widgets(<<>>, <<>>, <<>>, <<>>, <<>>, FALSE)

Current == Widgets(host, port, passwd, command, result, savepw)

\* variant: the password is stored whatever the check box says
gui_settings_always_passwd(w) ==
    [k \in Keys |->
        CASE k = "host" -> JStr(w.host)
          [] k = "port" -> JStr(w.port)
          [] k = "command" -> JStr(w.command)
          [] k = "result" -> JStr(w.result)
          [] k = "savepw" -> JBool(w.savepw)
          [] k = "passwd" -> JStr(w.passwd)]

\* the gui_settings property: the dict that is dumped
gui_settings(w) ==
    [k \in Keys |->
        CASE k = "host" -> JStr(w.host)
          [] k = "port" -> JStr(w.port)
          [] k = "command" -> JStr(w.command)
          [] k = "result" -> JStr(w.result)
          [] k = "savepw" -> JBool(w.savepw)
          [] k = "passwd" -> IF w.savepw THEN JStr(w.passwd) ELSE JAbsent]

\* the order in which the setter assigns the entries
SetterOrder == <<"host", "port", "passwd", "command", "result">>

\* Gtk.Entry.set_text takes a str only
TextOk(v) == v.type \in {"absent", "string"}

\* json.get(key, '')
GetText(o, k) == IF o[k].type = "string" THEN o[k].s ELSE <<>>

\* index of the first entry whose set_text raises TypeError, 6 if none
FirstBad(o) ==
    IF \E i \in 1..5 : ~TextOk(o[SetterOrder[i]])
    THEN CHOOSE i \in 1..5 :
            /\ ~TextOk(o[SetterOrder[i]])
            /\ \A j \in 1..(i - 1) : TextOk(o[SetterOrder[j]])
    ELSE 6

\* the gui_settings setter applied to widgets w: the widgets afterwards and
\* whether it raised
gui_settings_setter(o, w) ==
    LET bad == FirstBad(o)
        text(i, old) == IF i < bad THEN GetText(o, SetterOrder[i]) ELSE old
    IN  [ w |-> Widgets(text(1, w.host), text(2, w.port), text(3, w.passwd),
                        text(4, w.command), text(5, w.result),
                        IF bad = 6
                        THEN (IF o["savepw"].type = "bool" THEN o["savepw"].b
                              ELSE FALSE)
                        ELSE w.savepw),
          raised |-> IF bad = 6 THEN "" ELSE "TypeError" ]

\* GUI.load_gui_settings: the widgets afterwards, the log level, and the
\* exception that escapes ("" if none)
load_gui_settings(kind, data, w) ==
    IF kind \in {"nodir", "missing"}
    THEN [w |-> w, log |-> "warning", raised |-> ""]
    ELSE IF kind = "noperm"
    THEN [w |-> w, log |-> "error", raised |-> ""]
    ELSE IF data.kind = "garbage"
    THEN [w |-> w, log |-> "error", raised |-> ""]
    ELSE IF data.kind = "array"
    THEN [w |-> w, log |-> "none", raised |-> "AttributeError"]
    ELSE LET r == gui_settings_setter(data.obj, w)
         IN  [w |-> r.w, log |-> "none", raised |-> r.raised]

\* GUI.save_gui_settings: the file afterwards, the log level, and the
\* exception that escapes ("" if none)
save_gui_settings(kind, data, w) ==
    IF kind = "nodir"
    THEN [kind |-> kind, data |-> data, log |-> "none",
          raised |-> "FileNotFoundError", wrote |-> FALSE]
    ELSE IF kind = "noperm"
    THEN [kind |-> kind, data |-> data, log |-> "error", raised |-> "",
          wrote |-> FALSE]
    ELSE [kind |-> "ok", data |-> Object(gui_settings(w)), log |-> "none",
          raised |-> "", wrote |-> TRUE]

SessionReset ==
    /\ pc' = "idle" /\ params' = NoParams /\ pending' = NoPending
    /\ connOpen' = FALSE
    /\ rejected' = FALSE /\ fault' = NoExc /\ origin' = "none"
    /\ shown' = <<>> /\ fatal' = "" /\ outcome' = "none" /\ resultSet' = FALSE
    /\ nConnect' = 0 /\ nLogin' = 0 /\ nRun' = 0 /\ nClose' = 0
    /\ connected' = FALSE /\ authed' = FALSE

\* main: GUI() builds the widgets and calls load_gui_settings
Start ==
    /\ app # "running"
    /\ LET r == load_gui_settings(cacheKind, cacheData, Defaults)
       IN  /\ host' = r.w.host /\ port' = r.w.port /\ passwd' = r.w.passwd
           /\ command' = r.w.command /\ result' = r.w.result
           /\ savepw' = r.w.savepw
           /\ log' = r.log
           /\ app' = IF r.raised = "" THEN "running" ELSE "crashed"
           /\ roundTrip' = (written /\ cacheKind = "ok" /\ r.raised = "")
    /\ SessionReset
    /\ UNCHANGED <<cacheKind, cacheData, prev, written>>

\* GUI.terminate, the handler of the window's destroy signal:
\* save_gui_settings, then Gtk.main_quit
Terminate ==
    /\ Idle
    /\ LET r == save_gui_settings(cacheKind, cacheData, Current)
       IN  /\ cacheKind' = r.kind
           /\ cacheData' = r.data
           /\ log' = r.log
           /\ app' = IF r.raised = "" THEN "quit" ELSE "hung"
           /\ written' = IF r.wrote THEN TRUE ELSE written
           /\ prev' = IF r.wrote THEN Current ELSE prev
    /\ roundTrip' = FALSE
    /\ UNCHANGED <<widgets, session, observed>>

\* the environment: the cache directory or file is removed, created or
\* has its permissions changed
EnvCache ==
    /\ \E k \in {"nodir", "missing", "noperm", "ok"} :
          /\ k # cacheKind
          /\ cacheKind' = k
          /\ IF k \in {"nodir", "missing"}
             THEN cacheData' = NoData /\ written' = FALSE /\ prev' = Defaults
             ELSE IF cacheKind \in {"nodir", "missing"}
             THEN /\ \E d \in ForeignData : cacheData' = d
                  /\ written' = FALSE /\ prev' = Defaults
             ELSE UNCHANGED <<cacheData, written, prev>>
    /\ roundTrip' = FALSE
    /\ UNCHANGED <<widgets, app, log, session, observed>>

(***************************************************************************)
(* Specifications.                                                         *)
(***************************************************************************)
InitSession ==
    /\ pc = "idle" /\ params = NoParams /\ pending = NoPending
    /\ connOpen = FALSE
    /\ rejected = FALSE /\ fault = NoExc /\ origin = "none"
    /\ shown = <<>> /\ fatal = "" /\ outcome = "none" /\ resultSet = FALSE
    /\ nConnect = 0 /\ nLogin = 0 /\ nRun = 0 /\ nClose = 0
    /\ connected = FALSE /\ authed = FALSE

InitGhost == prev = Defaults /\ written = FALSE /\ roundTrip = FALSE

\* the window as GUI() leaves it when there is no cache file yet
Init ==
    /\ host = <<>> /\ port = <<>> /\ passwd = <<>> /\ command = <<>>
    /\ result = <<>> /\ savepw = FALSE
    /\ app = "running" /\ cacheKind = "missing" /\ cacheData = NoData
    /\ log = "warning"
    /\ InitSession /\ InitGhost

\* the user edits the entries and runs commands
Next ==
    \/ SetHost \/ SetPort \/ SetPasswd \/ SetCommand \/ SetResult
    \/ ToggleSavepw
    \/ ClickRun \/ ClientConnect \/ ClientLogin \/ ClientRun \/ WithExit
    \/ HandlerFinish

Spec == Init /\ [][Next]_vars

\* the validator on every enumerated input: the entries hold any texts and
\* the Run button is pressed once
InitValidate ==
    /\ host \in Hosts /\ port \in PortInputs /\ passwd \in Passwds
    /\ command \in Commands
    /\ result = <<>> /\ savepw = FALSE
    /\ app = "running" /\ cacheKind = "missing" /\ cacheData = NoData
    /\ log = "warning"
    /\ InitSession /\ InitGhost

\* the first press of the Run button
FirstClick == outcome = "none" /\ ClickRun

NextValidate == FirstClick \/ HandlerFinish

SpecValidate == InitValidate /\ [][NextValidate]_vars

\* the life cycle of the application around the settings cache
InitSettings ==
    /\ host = <<>> /\ port = <<>> /\ passwd = <<>> /\ command = <<>>
    /\ result = <<>> /\ savepw = FALSE
    /\ app = "off" /\ log = "none"
    /\ \/ cacheKind \in {"nodir", "missing"} /\ cacheData = NoData
       \/ cacheKind \in {"noperm", "ok"} /\ cacheData \in ForeignData
    /\ InitSession /\ InitGhost

NextSettings ==
    \/ Start \/ Terminate \/ EnvCache
    \/ SetHost \/ SetPort \/ SetPasswd \/ SetCommand \/ SetResult
    \/ ToggleSavepw

SpecSettings == InitSettings /\ [][NextSettings]_vars

(***************************************************************************)
(* Properties.                                                             *)
(***************************************************************************)
\* the attempt started by the last click is over
Over == pc = "idle" /\ outcome # "none"

\* the client faults that have a category of their own
ClientCategories ==
    {"ConnectionRefusedError", "timeout", "RequestIdMismatch", "WrongPassword"}

\* C1: every run with validated parameters has released the connection
\* exactly once when it ends, on every exit path (connection refused
\* included): close was invoked once and no connection is left open.
C1_ReleasedExactlyOnce ==
    (Over /\ ~rejected) => (nClose = 1 /\ ~connOpen)

\* C2: an attempt that validation rejects takes no connect, login or
\* command step and opens no connection.
C2_NoNetworkOnInvalid ==
    rejected => /\ nConnect = 0 /\ nLogin = 0 /\ nRun = 0 /\ nClose = 0
                /\ ~connOpen
                /\ pc \in {"handler", "idle"}

C2_Witness ==
    /\ Over /\ rejected /\ host # <<>> /\ command # <<>>
    /\ port = <<"7", "0", "0", "0", "0">>
    /\ shown = <<"Invalid port specified.">>

\* C3: validation returns the first applicable failure in the order host,
\* port presence, command presence, port parseability, port range, and
\* succeeds with RCONParams exactly when none applies, whatever the password.
C3_Applies(i) ==
    CASE i = 1 -> host = <<>>
      [] i = 2 -> port = <<>>
      [] i = 3 -> command = <<>>
      [] i = 4 -> ~PyInt(port).ok
      [] i = 5 -> PyInt(port).ok /\ PyInt(port).val \notin 0..MaxPort

C3_Message ==
    << "No host specified.", "No port specified.", "No command entered.",
       "Invalid port specified.", "Invalid port specified." >>

C3_ValidationOrder ==
    outcome # "none" =>
        LET f == {i \in 1..5 : C3_Applies(i)}
        IN  IF f = {}
            THEN /\ ~rejected
                 /\ pc = "enter_connect"
                 /\ params = RCONParams(host, PyInt(port).val, passwd, command)
                 /\ shown = <<>>
            ELSE LET first == CHOOSE i \in f : \A j \in f : i <= j
                 IN  /\ rejected
                     /\ fault = Exc("ValueError", C3_Message[first])
                     /\ pc = "idle" => shown = <<C3_Message[first]>>

C3_Witness ==
    /\ Over /\ host # <<>> /\ command = <<>> /\ port = <<"a", "b", "c">>
    /\ shown = <<"No command entered.">>

\* C4: the command is run only after connect and login have both succeeded,
\* at most once per attempt; a rejected login ends the attempt with the
\* message "Invalid password." and no command step.
C4_RunAfterAuth ==
    /\ nRun > 0 => (connected /\ authed /\ nConnect = 1 /\ nLogin = 1)
    /\ nRun <= 1
    /\ (Over /\ fault.cls = "WrongPassword") =>
          /\ outcome = "failure"
          /\ shown = <<"Invalid password.">>
          /\ nRun = 0
          /\ ~resultSet

C4_Witness == Over /\ fault.cls = "WrongPassword" /\ origin = "login"

\* C5: an attempt that ends in success or in a fault of the five categories
\* has exactly one outcome: the response replaces the result and nothing is
\* shown, or exactly the category's message is shown and the result is
\* left as it was; nothing escapes the handler.
C5_FixedMessage ==
    CASE origin = "validate" -> fault.msg
      [] fault.cls = "ConnectionRefusedError" -> "Connection refused."
      [] fault.cls = "timeout" -> "Connection timed out."
      [] fault.cls = "RequestIdMismatch" -> "Request ID mismatch."
      [] fault.cls = "WrongPassword" -> "Invalid password."

C5_Outcome ==
    (Over /\ (fault = NoExc \/ origin = "validate"
              \/ fault.cls \in ClientCategories)) =>
        /\ fatal = ""
        /\ IF fault = NoExc
           THEN outcome = "success" /\ resultSet /\ shown = <<>>
           ELSE /\ outcome = "failure" /\ ~resultSet
                /\ shown = <<C5_FixedMessage>>
                /\ origin = "validate" =>
                      fault.msg \in {C3_Message[i] : i \in 1..5}

C5_ResultStep ==
    (pc = "handler" /\ pc' = "idle") =>
        IF pending.kind = "return" THEN result' = pending.text
        ELSE result' = result

C5_OneOutcome == []C5_Outcome /\ [][C5_ResultStep]_vars

C5_Witness ==
    /\ Over /\ origin = "run" /\ fault.cls = "timeout"
    /\ result = <<"x">> /\ shown = <<"Connection timed out.">>

\* C6: a fault raised while connecting, logging in or running the command
\* that is none of connection refused, timeout, request-ID mismatch and
\* wrong password escapes the handler: no message is shown for it and no
\* result is set.
C6_UnclassifiedIsFatal ==
    (Over /\ origin \in {"connect", "login", "run"}
          /\ fault.cls \notin ClientCategories) =>
        /\ outcome = "fatal" /\ fatal = fault.cls
        /\ shown = <<>> /\ ~resultSet

\* C7: the state of the runner's session in the attempt
SessState ==
    IF nClose > 0 THEN "Closed"
    ELSE IF pc = "enter_connect" THEN "Connecting"
    ELSE IF pc = "enter_login" THEN "Authenticating"
    ELSE IF pc = "body" THEN "Executing"
    ELSE IF nConnect = 0 THEN "Idle"
    ELSE IF fault # NoExc THEN "Failed"
    ELSE "Succeeded"

\* C7: a call that has left Idle has reached Closed when it is over,
\* whichever terminal state it went through.
C7_EndsClosed == (Over /\ SessState # "Idle") => SessState = "Closed"

\* C8 as claimed: re-serializing the accepted RCONParams gives back the four
\* raw texts, the port text included.
C8_RoundTrip ==
    (outcome # "none" /\ ~rejected) =>
        /\ params.host = host /\ PyStr(params.port) = port
        /\ params.passwd = passwd /\ params.command = command

\* a decimal numeral as str() writes it
C8_Canonical(p) ==
    /\ p # <<>>
    /\ \A i \in 1..Len(p) : p[i] \in Digits
    /\ Len(p) > 1 => p[1] # "0"

\* C8 as amended: host, password and command come back exactly; str(port)
\* is the canonical numeral of the port text: it parses to the same port,
\* and it equals the raw text exactly when that text is itself canonical.
C8_RoundTripCanonical ==
    (outcome # "none" /\ ~rejected) =>
        /\ params.host = host
        /\ params.passwd = passwd /\ params.command = command
        /\ PyInt(PyStr(params.port)) = [ok |-> TRUE, val |-> params.port]
        /\ PyInt(port).val = params.port
        /\ C8_Canonical(PyStr(params.port))
        /\ (PyStr(params.port) = port) <=> C8_Canonical(port)

C8_Witness ==
    /\ outcome # "none" /\ ~rejected /\ port = <<" ", "8", "0", " ">>
    /\ params.port = 80 /\ PyStr(params.port) = <<"8", "0">>

\* C9: no failure of the settings store is fatal: the application neither
\* fails to start because of the cache file nor fails to quit because the
\* cache cannot be written.
C9_StoreFailuresNonFatal == app # "crashed" /\ app # "hung"

\* C10: after a save and the load of what it wrote, host, port, command,
\* result and savepw are as they were saved; passwd too when savepw is
\* set, and otherwise the file has no passwd key and the password is
\* empty; saving again writes the same object.
C10_SaveLoadRoundTrip ==
    roundTrip =>
        /\ app = "running"
        /\ host = prev.host /\ port = prev.port /\ command = prev.command
        /\ result = prev.result /\ savepw = prev.savepw
        /\ passwd = (IF prev.savepw THEN prev.passwd ELSE <<>>)
        /\ ~prev.savepw => cacheData.obj["passwd"].type = "absent"
        /\ prev.savepw => cacheData.obj["passwd"] = JStr(prev.passwd)
        /\ save_gui_settings(cacheKind, cacheData, Current).data = cacheData

C10_Witness ==
    /\ roundTrip /\ ~prev.savepw /\ prev.passwd # <<>> /\ prev.host # <<>>
    /\ prev.port # <<>> /\ prev.result # <<>> /\ passwd = <<>>

====
